---------------------------- MODULE Spec2Model ----------------------------
(***************************************************************************)
(* The governance dashboard script gd.py as a state machine.               *)
(*                                                                         *)
(* One render pass runs the script top to bottom: three memoized loads,    *)
(* the st.stop guard, the two enrichment merges, the Time coercion, the    *)
(* sidebar selections, the filter, the data quality metrics and the two    *)
(* chart sections.  A table (DataFrame) is a record [cols, rows]: cols is  *)
(* the set of column names, rows the sequence of rows, each row a function *)
(* from cols to a cell.  Cells are the strings the CSV holds; Null is the  *)
(* missing value (NaN); numbers are read off a cell with NumberOf, which   *)
(* is defined on the cells pandas parses as numbers.                       *)
(***************************************************************************)
EXTENDS Integers, Sequences, FiniteSets, TLC

MaxRows == 2        \* rows of a source table
MaxPasses == 2      \* render passes of one session (cache specification)
MaxReplace == 1     \* replacements of source files (cache specification)

Null == "NaN"

DATA == "data/ESGData.csv"
COUNTRY == "data/ESGCountry.csv"
SERIES == "data/ESGSeries.csv"
Paths == {DATA, COUNTRY, SERIES}

-----------------------------------------------------------------------------
(* Cells and numbers *)

NumericCells == {"2000", "2001", "2001.0", "2000.5", "inf", "5", "-5"}

\* pd.to_numeric(errors='coerce') succeeds exactly on these cells.
IsNumeric(v) == v \in NumericCells

\* np.isfinite: "inf" parses as a float that is no finite number.
IsFinite(v) == v # "inf"

\* x == int(x): the finite numbers without a fractional part.
IsIntegral(v) == IsFinite(v) /\ v # "2000.5"

\* The value of a cell that holds an integral number.
NumberOf(v) ==
    CASE v = "2000" -> 2000
      [] v = "2001" -> 2001
      [] v = "2001.0" -> 2001
      [] v = "5" -> 5
      [] v = "-5" -> -5

\* int(x) of a finite number: the fractional part is cut off.
Truncated(v) == IF v = "2000.5" THEN 2000 ELSE NumberOf(v)

\* astype(int) followed by display: the canonical cell of an integer.
IntCell(n) ==
    CASE n = 2000 -> "2000"
      [] n = 2001 -> "2001"
      [] n = 5 -> "5"
      [] n = -5 -> "-5"

\* Python's order on the strings that reach sorted(): by code point.
NameOrder == <<"Aland", "Alt", "Bland", "Unknown Country">>

-----------------------------------------------------------------------------
(* Tables *)

EmptyFrame == [cols |-> {}, rows |-> <<>>]

\* DataFrame.empty: any axis of length 0.
IsEmpty(df) == df.cols = {} \/ Len(df.rows) = 0

Range(s) == {s[i] : i \in DOMAIN s}

RECURSIVE Concat(_)
Concat(ss) == IF Len(ss) = 0 THEN <<>> ELSE Head(ss) \o Concat(Tail(ss))

\* df[c] = values: column c added or overwritten, values[i] going to row i.
SetCol(df, c, values) ==
    [cols |-> df.cols \cup {c},
     rows |-> [i \in DOMAIN df.rows |->
                 [x \in df.cols \cup {c} |->
                    IF x = c THEN values[i] ELSE df.rows[i][x]]]]

\* df[df[c] == v]: the rows whose cell in column c equals v, in order.
WhereEq(df, c, v) ==
    LET Test(r) == r[c] = v
    IN  [cols |-> df.cols, rows |-> SelectSeq(df.rows, Test)]

\* df.drop(columns=[c])
DropCol(df, c) ==
    [cols |-> df.cols \ {c},
     rows |-> [i \in DOMAIN df.rows |-> [x \in df.cols \ {c} |-> df.rows[i][x]]]]

\* df[[...]]: projection on the listed columns.
Project(df, cs) ==
    [cols |-> cs,
     rows |-> [i \in DOMAIN df.rows |-> [x \in cs |-> df.rows[i][x]]]]

\* df.rename(columns={old: new})
RenameCol(df, old, new) ==
    [cols |-> (df.cols \ {old}) \cup {new},
     rows |-> [i \in DOMAIN df.rows |->
                 [x \in (df.cols \ {old}) \cup {new} |->
                    IF x = new THEN df.rows[i][old] ELSE df.rows[i][x]]]]

\* series.dropna().unique(): the distinct non-null cells of column c.
Distinct(df, c) == {df.rows[i][c] : i \in DOMAIN df.rows} \ {Null}

\* The name a right-hand column gets under suffixes=('', '_y').
RightName(left, key, c) ==
    IF c \in left.cols /\ c # key THEN c \o "_y" ELSE c

\* A naive inner join: unmatched left rows are lost.
InnerMerge(left, right, key) ==
    LET rcols == {RightName(left, key, c) : c \in right.cols \ {key}}
        Source(x) == CHOOSE c \in right.cols \ {key} : RightName(left, key, c) = x
        Joined(l, r) == [x \in left.cols \cup rcols |->
                            IF x \in left.cols THEN l[x] ELSE r[Source(x)]]
        Rows(l) == LET Match(r) == r[key] = l[key]
                       ms == SelectSeq(right.rows, Match)
                   IN  [j \in DOMAIN ms |-> Joined(l, ms[j])]
    IN  [cols |-> left.cols \cup rcols,
         rows |-> Concat([i \in DOMAIN left.rows |-> Rows(left.rows[i])])]

\* pd.merge(left, right, on=key, how='left', suffixes=('', '_y')): each left
\* row, in order, once per matching right row (in right order), or once with
\* nulls when nothing matches.  Missing keys match each other, as in pandas.
LeftMerge(left, right, key) ==
    LET rcols == {RightName(left, key, c) : c \in right.cols \ {key}}
        Source(x) == CHOOSE c \in right.cols \ {key} : RightName(left, key, c) = x
        Joined(l, r) == [x \in left.cols \cup rcols |->
                            IF x \in left.cols THEN l[x] ELSE r[Source(x)]]
        Unmatched(l) == [x \in left.cols \cup rcols |->
                            IF x \in left.cols THEN l[x] ELSE Null]
        Rows(l) == LET Match(r) == r[key] = l[key]
                       ms == SelectSeq(right.rows, Match)
                   IN  IF Len(ms) = 0 THEN <<Unmatched(l)>>
                       ELSE [j \in DOMAIN ms |-> Joined(l, ms[j])]
    IN  [cols |-> left.cols \cup rcols,
         rows |-> Concat([i \in DOMAIN left.rows |-> Rows(left.rows[i])])]

\* sorted(...) of a set of integer cells.
RECURSIVE SortedCells(_)
SortedCells(S) ==
    IF S = {} THEN <<>>
    ELSE LET m == CHOOSE x \in S : \A y \in S : NumberOf(x) <= NumberOf(y)
         IN  <<m>> \o SortedCells(S \ {m})

\* sorted(...) of a set of names.
SortedNames(S) == LET In(s) == s \in S IN SelectSeq(NameOrder, In)

-----------------------------------------------------------------------------
(* Source files *)

\* A source is absent, blank (a zero-byte file) or a CSV with a header line.
Absent == [kind |-> "absent", cols |-> {}, rows |-> <<>>]
Blank == [kind |-> "blank", cols |-> {}, rows |-> <<>>]
Csv(df) == [kind |-> "csv", cols |-> df.cols, rows |-> df.rows]

SeqsUpTo(D, n) == UNION {[1..k -> D] : k \in 0..n}
TablesOver(cols, D) == {[cols |-> cols, rows |-> s] : s \in SeqsUpTo(D, MaxRows)}

PrimaryCols == {"Country Code", "Series Code", "Time", "Value"}
PrimaryRow(cc, sc, t, v) ==
    [x \in PrimaryCols |->
       CASE x = "Country Code" -> cc
         [] x = "Series Code" -> sc
         [] x = "Time" -> t
         [] x = "Value" -> v]

CountryCols == {"Country Code", "Table Name"}
CountryRow(cc, name) ==
    [x \in CountryCols |-> IF x = "Country Code" THEN cc ELSE name]

SeriesCols == {"Series Code", "Indicator Name"}
SeriesRow(sc, name) ==
    [x \in SeriesCols |-> IF x = "Series Code" THEN sc ELSE name]

StdPrimary ==
    [cols |-> PrimaryCols,
     rows |-> <<PrimaryRow("A", "S1", "2000", "5"), PrimaryRow("B", "S2", "2001.0", "-5")>>]
StdCountry ==
    [cols |-> CountryCols, rows |-> <<CountryRow("A", "Aland"), CountryRow("B", "Bland")>>]
StdSeries ==
    [cols |-> SeriesCols, rows |-> <<SeriesRow("S1", "Ind1"), SeriesRow("S2", "Ind2")>>]

Sources(d, c, s) == [p \in Paths |-> IF p = DATA THEN d ELSE IF p = COUNTRY THEN c ELSE s]

\* Rows varying in country, series and Time, the secondaries fixed.
FilterRows ==
    {PrimaryRow(cc, sc, t, "5") :
        cc \in {"A", "B"}, sc \in {"S1", "S2"}, t \in {"2000", "2001.0", "x"}}
FilterInputs ==
    {Sources(Csv(d), Csv(StdCountry), Csv(StdSeries)) : d \in TablesOver(PrimaryCols, FilterRows)}

\* Rows varying in the two join keys, against secondaries with missing and
\* repeated keys.
KeyRows == {PrimaryRow(cc, sc, "2000", "5") : cc \in {"A", "B"}, sc \in {"S1", "S2"}}
CountryTables ==
    TablesOver(CountryCols,
               {CountryRow("A", "Aland"), CountryRow("A", "Alt"), CountryRow("B", "Bland")})
SeriesTables ==
    TablesOver(SeriesCols,
               {SeriesRow("S1", "Ind1"), SeriesRow("S1", "Ind1b"), SeriesRow("S2", "Ind2")})
DupCountry ==
    [cols |-> CountryCols,
     rows |-> <<CountryRow("A", "Aland"), CountryRow("A", "Alt"),
                CountryRow("B", "Bland"), CountryRow("B", "Bland")>>]
JoinInputs ==
    {Sources(Csv(d), Csv(c), Csv(StdSeries)) :
        d \in TablesOver(PrimaryCols, KeyRows), c \in CountryTables}
    \cup
    {Sources(Csv(d), Csv(c), Csv(s)) :
        d \in TablesOver(PrimaryCols, KeyRows), c \in {StdCountry, DupCountry}, s \in SeriesTables}

\* Each source absent, blank, a header without data rows, or the standard one.
LoadInputs ==
    {Sources(d, c, s) :
        d \in {Absent, Blank, Csv([cols |-> PrimaryCols, rows |-> <<>>]), Csv(StdPrimary)},
        c \in {Absent, Blank, Csv([cols |-> CountryCols, rows |-> <<>>]), Csv(StdCountry)},
        s \in {Absent, Blank, Csv([cols |-> SeriesCols, rows |-> <<>>]), Csv(StdSeries)}}

\* Headers that differ from the names the script looks for.
HeaderBase ==
    TablesOver(PrimaryCols,
               {PrimaryRow("A", "S1", "2000", "5"), PrimaryRow("B", "S2", "2001.0", "5")})
HeaderVariants(d) ==
    {RenameCol(d, "Series Code", "series code"),
     RenameCol(d, "Series Code", "Series_Code"),
     RenameCol(d, "Country Code", "country code"),
     SetCol(RenameCol(d, "Series Code", "series code"), "SERIES-CODE",
            [i \in DOMAIN d.rows |-> d.rows[i]["Series Code"]]),
     DropCol(d, "Time"),
     DropCol(d, "Value")}
HeaderInputs ==
    {Sources(Csv(v), Csv(StdCountry), Csv(StdSeries)) :
        v \in UNION {HeaderVariants(d) : d \in HeaderBase}}
    \cup
    {Sources(Csv(StdPrimary), Csv(c), Csv(s)) :
        c \in {StdCountry, RenameCol(StdCountry, "Country Code", "country code"),
               DropCol(StdCountry, "Table Name")},
        s \in {StdSeries, RenameCol(StdSeries, "Series Code", "series code"),
               DropCol(StdSeries, "Indicator Name")}}

\* Rows varying in Value and in missing cells.
MetricRows ==
    {PrimaryRow(cc, "S1", t, v) :
        cc \in {"A", Null}, t \in {"2000", "x"}, v \in {"5", "-5", Null}}
MetricInputs ==
    {Sources(Csv(d), Csv(StdCountry), Csv(StdSeries)) : d \in TablesOver(PrimaryCols, MetricRows)}

\* Rows varying in Time: integers, a float, a fraction, text, a missing
\* cell and an infinite number.
TimeRows ==
    {PrimaryRow("A", "S1", t, "5") : t \in {"2000", "2001.0", "2000.5", "x", Null, "inf"}}
TimeInputs ==
    {Sources(Csv(d), Csv(StdCountry), Csv(StdSeries)) : d \in TablesOver(PrimaryCols, TimeRows)}

Inputs ==
    FilterInputs \cup JoinInputs \cup LoadInputs \cup HeaderInputs \cup MetricInputs
        \cup TimeInputs

-----------------------------------------------------------------------------
(* load_data *)

\* What a load_data call hands back, and what st.cache_data memoizes: the
\* returned DataFrame with the st.error element recorded during the call.
NotLoaded == [kind |-> "none", df |-> EmptyFrame, err |-> FALSE]
Frame(df, err) == [kind |-> "frame", df |-> df, err |-> err]

\* The except branch: st.error and an empty DataFrame.
OnFileNotFound(src) == Frame(EmptyFrame, TRUE)

\* The body of load_data on a source pd.read_csv can read or cannot find.
ReadCsv(src) ==
    IF src.kind = "absent" THEN OnFileNotFound(src)
    ELSE Frame([cols |-> src.cols, rows |-> src.rows], FALSE)

\* st.cache_data: the entry stored under the argument, whatever the file holds now.
Lookup(memo, p, src) == memo[p]

-----------------------------------------------------------------------------
(* calculate_data_quality_metrics *)

Ratio(n, d) == [num |-> n, den |-> d]
ZeroMetrics ==
    [computed |-> TRUE, accuracy |-> Ratio(0, 1), completeness |-> Ratio(0, 1),
     consistency |-> Ratio(0, 1)]
NoMetrics ==
    [computed |-> FALSE, accuracy |-> Ratio(0, 1), completeness |-> Ratio(0, 1),
     consistency |-> Ratio(0, 1)]

Count(df, c, vals) == Cardinality({i \in DOMAIN df.rows : df.rows[i][c] \in vals})
\* The larger of the two counts taken for the smaller.
Larger(a, b) == IF a <= b THEN b ELSE a

Min(a, b) == IF a <= b THEN a ELSE b

CriticalColumns == {"Country Code", "Series Code", "Time", "Value"}

NeverSentinel(df) == FALSE

\* The two early returns: df.empty, then total_records == 0.
ReturnsSentinel(df) == IsEmpty(df) \/ Len(df.rows) = 0

\* df['Time_is_int'] = ...: the helper column is written into the caller's table.
WithTimeIsInt(df) ==
    SetCol(df, "Time_is_int",
           [i \in DOMAIN df.rows |->
              IF IsNumeric(df.rows[i]["Time"]) /\ IsIntegral(df.rows[i]["Time"])
              THEN "True" ELSE "False"])

\* int(x) raises OverflowError on an infinite Time; the except branch warns
\* and leaves the count at total_records.
TimeCheckRaises(df) ==
    \E i \in DOMAIN df.rows : IsNumeric(df.rows[i]["Time"]) /\ ~IsFinite(df.rows[i]["Time"])

\* The result: what was raised ("none" when it returned), whether st.warning
\* was shown, the rates as numerator and denominator, and the table the
\* caller holds afterwards.
CalculateDataQualityMetrics(df) ==
    IF ReturnsSentinel(df)
    THEN [raised |-> "none", warned |-> FALSE, metrics |-> ZeroMetrics, df |-> df]
    ELSE
    LET total == Len(df.rows)
        hasValue == "Value" \in df.cols
        hasTime == "Time" \in df.cols
        objectValue == hasValue /\ \E i \in DOMAIN df.rows :
                          df.rows[i]["Value"] # Null /\ ~IsNumeric(df.rows[i]["Value"])
        accurate == IF hasValue
                    THEN Cardinality({i \in DOMAIN df.rows :
                            /\ IsNumeric(df.rows[i]["Value"])
                            /\ NumberOf(df.rows[i]["Value"]) >= 0})
                    ELSE total
        existing == CriticalColumns \cap df.cols
        complete == Cardinality({i \in DOMAIN df.rows :
                        \A c \in existing : df.rows[i][c] # Null})
        timeChecked == hasTime /\ ~TimeCheckRaises(df)
        after == IF timeChecked THEN WithTimeIsInt(df) ELSE df
        timeOk == IF timeChecked
                  THEN Cardinality({i \in DOMAIN df.rows :
                          /\ IsNumeric(df.rows[i]["Time"])
                          /\ IsIntegral(df.rows[i]["Time"])})
                  ELSE total
        consistent == IF hasValue
                      THEN Min(timeOk, Cardinality({i \in DOMAIN df.rows :
                                          IsNumeric(df.rows[i]["Value"])}))
                      ELSE timeOk
    IN  IF objectValue
        THEN [raised |-> "TypeError", warned |-> FALSE, metrics |-> NoMetrics, df |-> df]
        ELSE IF total = 0
        THEN [raised |-> "ZeroDivisionError", warned |-> FALSE, metrics |-> NoMetrics,
              df |-> df]
        ELSE [raised |-> "none",
              warned |-> hasTime /\ ~timeChecked,
              metrics |-> [computed |-> TRUE,
                           accuracy |-> Ratio(accurate, total),
                           completeness |-> IF existing # {} THEN Ratio(complete, total)
                                            ELSE Ratio(1, 1),
                           consistency |-> Ratio(consistent, total)],
              df |-> after]

-----------------------------------------------------------------------------
(* The steps of the script between the loads and the dashboard sections *)

FillNa(v, other) == IF v # Null THEN v ELSE other

\* The guard checks the primary table only.
PrimaryMissing(d, c, s) == IsEmpty(d)

\* if esg_data.empty or esg_country.empty or esg_series.empty
CoreMissing(d, c, s) == IsEmpty(d) \/ IsEmpty(c) \/ IsEmpty(s)

\* esg_data['Country Name'] = ...; esg_data['Indicator Name'] = ...
WithPlaceholders(df) ==
    SetCol(SetCol(df, "Country Name", [i \in DOMAIN df.rows |-> "Unknown Country"]),
           "Indicator Name", [i \in DOMAIN df.rows |-> "Unknown Indicator"])

\* The country branch: merge, take 'Table Name' where it is there, drop it.
MergedCountry(df, country) ==
    LET m == LeftMerge(df, Project(country, {"Country Code", "Table Name"}), "Country Code")
        named == SetCol(m, "Country Name",
                        [i \in DOMAIN m.rows |->
                           FillNa(m.rows[i]["Table Name"], m.rows[i]["Country Name"])])
    IN  DropCol(named, "Table Name")

\* The series branch: merge, take 'Indicator Name_y' where it is there, drop it.
MergedSeries(df, series) ==
    LET m == LeftMerge(df, Project(series, {"Series Code", "Indicator Name"}), "Series Code")
        named == SetCol(m, "Indicator Name",
                        [i \in DOMAIN m.rows |->
                           FillNa(m.rows[i]["Indicator Name_y"], m.rows[i]["Indicator Name"])])
    IN  DropCol(named, "Indicator Name_y")

\* The coercion without the dropna: failed rows stay, with a null Time.
CoerceTimeKeepingNulls(df) ==
    [cols |-> df.cols,
     rows |-> [i \in DOMAIN df.rows |->
                 [x \in df.cols |->
                    IF x = "Time"
                    THEN IF IsNumeric(df.rows[i]["Time"])
                         THEN IntCell(Truncated(df.rows[i]["Time"])) ELSE Null
                    ELSE df.rows[i][x]]]]

\* astype(int) raises on a column that holds a non-finite number.
TimeCastFails(df) == \E i \in DOMAIN df.rows : ~IsFinite(df.rows[i]["Time"])

\* to_numeric(errors='coerce'), dropna(subset=['Time']), astype(int).
CoerceTime(df) ==
    LET Ok(r) == IsNumeric(r["Time"])
        kept == SelectSeq(df.rows, Ok)
    IN  [cols |-> df.cols,
         rows |-> [i \in DOMAIN kept |->
                     [x \in df.cols |->
                        IF x = "Time" THEN IntCell(Truncated(kept[i]["Time"]))
                        ELSE kept[i][x]]]]

\* ["All"] + sorted(esg_data['Country Name'].dropna().unique().tolist())
CountryOptions(df) ==
    IF "Country Name" \in df.cols /\ Distinct(df, "Country Name") # {}
    THEN <<"All">> \o SortedNames(Distinct(df, "Country Name"))
    ELSE <<"All">>

HasYears(df) == "Time" \in df.cols /\ Distinct(df, "Time") # {}

\* ["All"] + sorted(esg_data['Time'].dropna().unique().tolist())
YearOptions(df) == <<"All">> \o SortedCells(Distinct(df, "Time"))

FilterCountryStep(joined, sel) ==
    IF sel # "All" THEN WhereEq(joined, "Country Name", sel) ELSE joined

\* The year narrowing applied to the joined table instead of the narrowed one.
FilterYearOnJoined(joined, filtered, sel) ==
    IF sel # "All" THEN WhereEq(joined, "Time", sel) ELSE filtered

FilterYearStep(joined, filtered, sel) ==
    IF sel # "All" THEN WhereEq(filtered, "Time", sel) ELSE filtered

\* The distribution section entered whenever the column is there.
HasIndicatorColumn(df) == "Indicator Name" \in df.cols

\* if not filtered_data.empty and 'Indicator Name' in filtered_data.columns
HasDistribution(df) == ~IsEmpty(df) /\ "Indicator Name" \in df.cols

\* value_counts(): each indicator name with its number of rows.  head(n) keeps
\* them all: the slider gives n >= 5 and the tables here hold fewer names.
IndicatorCounts(df) ==
    {<<n, Count(df, "Indicator Name", {n})>> : n \in Distinct(df, "Indicator Name")}

\* dropna().unique().tolist(): the distinct non-null cells, in order of first
\* appearance.
RECURSIVE UniqueList(_, _)
UniqueList(cells, seen) ==
    IF Len(cells) = 0 THEN <<>>
    ELSE IF Head(cells) = Null \/ Head(cells) \in seen
         THEN UniqueList(Tail(cells), seen)
         ELSE <<Head(cells)>> \o UniqueList(Tail(cells), seen \cup {Head(cells)})

AvailableIndicators(df) ==
    UniqueList([i \in DOMAIN df.rows |-> df.rows[i]["Indicator Name"]], {})

HasTrendColumns(df) == {"Time", "Value", "Indicator Name"} \subseteq df.cols

RECURSIVE SumOf(_)
SumOf(S) ==
    IF S = {} THEN 0
    ELSE LET p == CHOOSE q \in S : TRUE IN p[2] + SumOf(S \ {p})

\* trend_data.groupby('Time')['Value'].mean().reset_index(): per year, in
\* ascending order, the sum and the number of the non-null values (their mean).
TrendAgg(trend_data) ==
    LET years == SortedCells(Distinct(trend_data, "Time"))
        Vals(y) == {<<i, NumberOf(trend_data.rows[i]["Value"])>> :
                      i \in {j \in DOMAIN trend_data.rows :
                                /\ trend_data.rows[j]["Time"] = y
                                /\ IsNumeric(trend_data.rows[j]["Value"])}}
    IN  [k \in DOMAIN years |->
           [time |-> years[k], sum |-> SumOf(Vals(years[k])), n |-> Cardinality(Vals(years[k]))]]

NoDistribution == [branch |-> "none", counts |-> {}]
NoTrend == [branch |-> "none", options |-> <<>>, selected |-> "", rows |-> 0, agg |-> <<>>]

-----------------------------------------------------------------------------
(* State *)

VARIABLES
    fs,                     \* the source file at each path
    cache,                  \* st.cache_data's memo of load_data, by argument
    passes,                 \* render passes started
    replaced,               \* source files replaced so far
    pc,                     \* the statement the current pass is at
    failure,                \* the exception that ended the pass, or "none"
    messages,               \* st.error / st.warning / st.info elements shown
    loaded,                 \* what each load_data call of this pass returned
    esg_data,               \* the working table
    all_countries, selected_country,
    all_years, selected_year,
    filtered_data,
    data_quality_metrics,
    distribution,           \* section 4, bar chart
    trend                   \* section 4, line chart

session == <<fs, cache, passes, replaced>>
pass == <<loaded, esg_data, all_countries, selected_country, all_years, selected_year,
          filtered_data, data_quality_metrics, distribution, trend>>
vars == <<session, pc, failure, messages, pass>>

esg_country == loaded[COUNTRY].df
esg_series == loaded[SERIES].df

FreshPass ==
    /\ pc' = "load_esg_data"
    /\ failure' = "none"
    /\ messages' = {}
    /\ loaded' = [p \in Paths |-> NotLoaded]
    /\ esg_data' = EmptyFrame
    /\ all_countries' = <<>>
    /\ selected_country' = "All"
    /\ all_years' = <<>>
    /\ selected_year' = "All"
    /\ filtered_data' = EmptyFrame
    /\ data_quality_metrics' = NoMetrics
    /\ distribution' = NoDistribution
    /\ trend' = NoTrend

InitPass ==
    /\ pc = "load_esg_data"
    /\ failure = "none"
    /\ messages = {}
    /\ loaded = [p \in Paths |-> NotLoaded]
    /\ esg_data = EmptyFrame
    /\ all_countries = <<>>
    /\ selected_country = "All"
    /\ all_years = <<>>
    /\ selected_year = "All"
    /\ filtered_data = EmptyFrame
    /\ data_quality_metrics = NoMetrics
    /\ distribution = NoDistribution
    /\ trend = NoTrend

Init ==
    /\ fs \in Inputs
    /\ cache = [p \in Paths |-> NotLoaded]
    /\ passes = 1
    /\ replaced = 0
    /\ InitPass

Goto(next) == pc' = next /\ UNCHANGED failure
Raise(exc) == pc' = "crashed" /\ failure' = exc

-----------------------------------------------------------------------------
(* load_data, lines 7-18, called at lines 257-259 *)

Load(p, at, next) ==
    /\ pc = at
    /\ LET memo == Lookup(cache, p, fs[p])
       IN  IF memo.kind # "none"
           THEN \* a hit: the memoized value, its recorded st.error replayed
                /\ loaded' = [loaded EXCEPT ![p] = memo]
                /\ messages' = messages \cup (IF memo.err THEN {<<"error", p>>} ELSE {})
                /\ Goto(next)
                /\ UNCHANGED cache
           ELSE IF fs[p].kind = "blank"
           THEN \* pandas' EmptyDataError is not caught: nothing is memoized
                /\ Raise("EmptyDataError")
                /\ UNCHANGED <<cache, loaded, messages>>
           ELSE LET r == ReadCsv(fs[p])
                IN  /\ loaded' = [loaded EXCEPT ![p] = r]
                    /\ cache' = [cache EXCEPT ![p] = r]
                    /\ messages' = messages \cup (IF r.err THEN {<<"error", p>>} ELSE {})
                    /\ Goto(next)
    /\ UNCHANGED <<fs, passes, replaced, esg_data, all_countries, selected_country,
                   all_years, selected_year, filtered_data, data_quality_metrics,
                   distribution, trend>>

LoadEsgData == Load(DATA, "load_esg_data", "load_esg_country")
LoadEsgCountry == Load(COUNTRY, "load_esg_country", "load_esg_series")
LoadEsgSeries == Load(SERIES, "load_esg_series", "guard")

\* Lines 266-283: the st.stop guard, then the placeholder columns.
Guard ==
    /\ pc = "guard"
    /\ IF CoreMissing(loaded[DATA].df, esg_country, esg_series)
       THEN /\ messages' = messages \cup {<<"warning", "core data files">>}
            /\ Goto("stopped")
            /\ UNCHANGED esg_data
       ELSE /\ esg_data' = WithPlaceholders(loaded[DATA].df)
            /\ Goto("merge_country")
            /\ UNCHANGED messages
    /\ UNCHANGED <<session, loaded, all_countries, selected_country, all_years,
                   selected_year, filtered_data, data_quality_metrics, distribution, trend>>

\* Lines 285-296.
MergeCountry ==
    /\ pc = "merge_country"
    /\ IF "Country Code" \in esg_data.cols /\ "Country Code" \in esg_country.cols
       THEN IF "Table Name" \in esg_country.cols
            THEN /\ esg_data' = MergedCountry(esg_data, esg_country)
                 /\ Goto("merge_series")
                 /\ UNCHANGED messages
            ELSE /\ Raise("KeyError")
                 /\ UNCHANGED <<esg_data, messages>>
       ELSE /\ messages' = messages \cup {<<"warning", "Country Code">>}
            /\ Goto("merge_series")
            /\ UNCHANGED esg_data
    /\ UNCHANGED <<session, loaded, all_countries, selected_country, all_years,
                   selected_year, filtered_data, data_quality_metrics, distribution, trend>>

\* Lines 299-310.
MergeSeries ==
    /\ pc = "merge_series"
    /\ IF "Series Code" \in esg_data.cols /\ "Series Code" \in esg_series.cols
       THEN IF "Indicator Name" \in esg_series.cols
            THEN /\ esg_data' = MergedSeries(esg_data, esg_series)
                 /\ Goto("coerce_time")
                 /\ UNCHANGED messages
            ELSE /\ Raise("KeyError")
                 /\ UNCHANGED <<esg_data, messages>>
       ELSE /\ messages' = messages \cup {<<"warning", "Series Code">>}
            /\ Goto("coerce_time")
            /\ UNCHANGED esg_data
    /\ UNCHANGED <<session, loaded, all_countries, selected_country, all_years,
                   selected_year, filtered_data, data_quality_metrics, distribution, trend>>

\* Lines 313-319.
TimeCoercion ==
    /\ pc = "coerce_time"
    /\ IF "Time" \in esg_data.cols
       THEN IF TimeCastFails(esg_data)
            THEN /\ Raise("IntCastingNaNError")
                 /\ UNCHANGED <<esg_data, messages>>
            ELSE /\ esg_data' = CoerceTime(esg_data)
                 /\ Goto("select_country")
                 /\ UNCHANGED messages
       ELSE /\ messages' = messages \cup {<<"warning", "Time">>}
            /\ Goto("select_country")
            /\ UNCHANGED esg_data
    /\ UNCHANGED <<session, loaded, all_countries, selected_country, all_years,
                   selected_year, filtered_data, data_quality_metrics, distribution, trend>>

\* Lines 325-331: the option list, and the user's choice among it.
SelectCountry ==
    /\ pc = "select_country"
    /\ all_countries' = CountryOptions(esg_data)
    /\ selected_country' \in Range(all_countries')
    /\ Goto("select_year")
    /\ UNCHANGED <<session, messages, loaded, esg_data, all_years, selected_year,
                   filtered_data, data_quality_metrics, distribution, trend>>

\* Lines 333-340.
SelectYear ==
    /\ pc = "select_year"
    /\ IF HasYears(esg_data)
       THEN /\ all_years' = YearOptions(esg_data)
            /\ selected_year' \in Range(all_years')
            /\ UNCHANGED messages
       ELSE /\ messages' = messages \cup {<<"info", "Year filter">>}
            /\ UNCHANGED <<all_years, selected_year>>
    /\ Goto("filter_country")
    /\ UNCHANGED <<session, loaded, esg_data, all_countries, selected_country,
                   filtered_data, data_quality_metrics, distribution, trend>>

\* Lines 343-345.
FilterCountry ==
    /\ pc = "filter_country"
    /\ filtered_data' = FilterCountryStep(esg_data, selected_country)
    /\ Goto("filter_year")
    /\ UNCHANGED <<session, messages, loaded, esg_data, all_countries, selected_country,
                   all_years, selected_year, data_quality_metrics, distribution, trend>>

\* Lines 346-347.
FilterYear ==
    /\ pc = "filter_year"
    /\ filtered_data' = FilterYearStep(esg_data, filtered_data, selected_year)
    /\ Goto("quality")
    /\ UNCHANGED <<session, messages, loaded, esg_data, all_countries, selected_country,
                   all_years, selected_year, data_quality_metrics, distribution, trend>>

\* Line 355: the call hands filtered_data itself to the function.
QualityMetrics ==
    /\ pc = "quality"
    /\ LET r == CalculateDataQualityMetrics(filtered_data)
       IN  /\ filtered_data' = r.df
           /\ data_quality_metrics' = r.metrics
           /\ messages' = messages \cup
                            (IF r.warned THEN {<<"warning", "Time consistency">>} ELSE {})
           /\ IF r.raised = "none" THEN Goto("distribution") ELSE Raise(r.raised)
    /\ UNCHANGED <<session, loaded, esg_data, all_countries, selected_country,
                   all_years, selected_year, distribution, trend>>

\* Lines 406-414.
Distribution ==
    /\ pc = "distribution"
    /\ IF HasDistribution(filtered_data)
       THEN /\ distribution' = [branch |-> "chart", counts |-> IndicatorCounts(filtered_data)]
            /\ UNCHANGED messages
       ELSE /\ distribution' = [branch |-> "info", counts |-> {}]
            /\ messages' = messages \cup {<<"info", "distribution">>}
    /\ Goto("trend")
    /\ UNCHANGED <<session, loaded, esg_data, all_countries, selected_country, all_years,
                   selected_year, filtered_data, data_quality_metrics, trend>>

\* Lines 417-434.
Trend ==
    /\ pc = "trend"
    /\ IF HasTrendColumns(filtered_data)
       THEN LET options == AvailableIndicators(filtered_data)
            IN  IF Len(options) > 0
                THEN \E sel \in Range(options) :
                       LET trend_data == WhereEq(filtered_data, "Indicator Name", sel)
                       IN  IF ~IsEmpty(trend_data)
                           THEN /\ trend' = [branch |-> "chart", options |-> options,
                                             selected |-> sel, rows |-> Len(trend_data.rows),
                                             agg |-> TrendAgg(trend_data)]
                                /\ UNCHANGED messages
                           ELSE /\ trend' = [branch |-> "no_data", options |-> options,
                                             selected |-> sel, rows |-> 0, agg |-> <<>>]
                                /\ messages' = messages \cup {<<"info", "trend data">>}
                ELSE /\ trend' = [NoTrend EXCEPT !.branch = "no_indicators"]
                     /\ messages' = messages \cup {<<"info", "trend indicators">>}
       ELSE /\ trend' = [NoTrend EXCEPT !.branch = "no_columns"]
            /\ messages' = messages \cup {<<"info", "trend columns">>}
    /\ Goto("done")
    /\ UNCHANGED <<session, loaded, esg_data, all_countries, selected_country, all_years,
                   selected_year, filtered_data, data_quality_metrics, distribution>>

\* A widget interaction, or a reload of the page: the script runs again, with
\* the process-wide memo kept.
Rerun ==
    /\ pc \in {"done", "stopped", "crashed"}
    /\ passes < MaxPasses
    /\ passes' = passes + 1
    /\ FreshPass
    /\ UNCHANGED <<fs, cache, replaced>>

\* The environment: a source file is downloaded again, created or removed.
StdPrimaryNew ==
    [cols |-> PrimaryCols, rows |-> <<PrimaryRow("B", "S1", "2001", "5")>>]
Replacements(p) ==
    IF p = DATA THEN {Absent, Csv(StdPrimary), Csv(StdPrimaryNew)}
    ELSE IF p = COUNTRY THEN {Absent, Csv(StdCountry)}
    ELSE {Absent, Csv(StdSeries)}

Replace ==
    /\ replaced < MaxReplace
    /\ \E p \in Paths : \E src \in Replacements(p) \ {fs[p]} :
          fs' = [fs EXCEPT ![p] = src]
    /\ replaced' = replaced + 1
    /\ UNCHANGED <<cache, passes, pc, failure, messages, pass>>

Next ==
    \/ LoadEsgData \/ LoadEsgCountry \/ LoadEsgSeries
    \/ Guard \/ MergeCountry \/ MergeSeries \/ TimeCoercion
    \/ SelectCountry \/ SelectYear \/ FilterCountry \/ FilterYear
    \/ QualityMetrics \/ Distribution \/ Trend

Spec == Init /\ [][Next]_vars

\* The session with its memo: passes follow one another and the source files
\* change underneath.
InitCache ==
    /\ fs \in {Sources(d, c, s) : d \in Replacements(DATA), c \in Replacements(COUNTRY),
                                  s \in Replacements(SERIES)}
    /\ cache = [p \in Paths |-> NotLoaded]
    /\ passes = 1
    /\ replaced = 0
    /\ InitPass

NextCache == Next \/ Rerun \/ Replace

SpecCache == InitCache /\ [][NextCache]_vars

-----------------------------------------------------------------------------
(* Properties *)

RECURSIVE IsSubseq(_, _)
IsSubseq(s, t) ==
    IF Len(s) = 0 THEN TRUE
    ELSE IF Len(t) = 0 THEN FALSE
    ELSE IF Head(s) = Head(t) THEN IsSubseq(Tail(s), Tail(t))
    ELSE IsSubseq(s, Tail(t))

PastSelection == {"filter_country", "filter_year", "quality", "distribution", "trend", "done"}
PastQuality == {"distribution", "trend", "done"}
PastMerges == {"coerce_time", "select_country", "select_year"} \cup PastSelection

\* C1: the filter step yields only rows of the joined table, in their order:
\* the country narrowing is a subsequence of the joined table, the year
\* narrowing a subsequence of the country narrowing, so the row counts go
\* joined >= after country >= after year; the columns stay the same.
C1_FilterNarrows ==
    [][/\ (pc = "filter_country" /\ pc' = "filter_year")
            => /\ IsSubseq(filtered_data'.rows, esg_data.rows)
               /\ Len(filtered_data'.rows) <= Len(esg_data.rows)
               /\ filtered_data'.cols = esg_data.cols
       /\ (pc = "filter_year" /\ pc' = "quality")
            => /\ IsSubseq(filtered_data'.rows, filtered_data.rows)
               /\ IsSubseq(filtered_data'.rows, esg_data.rows)
               /\ Len(filtered_data'.rows) <= Len(filtered_data.rows)
               /\ Len(filtered_data.rows) <= Len(esg_data.rows)
               /\ filtered_data'.cols = esg_data.cols]_vars

\* Both selections made, and the filter kept some rows and dropped others.
C1_Witness ==
    /\ pc = "quality"
    /\ selected_country # "All"
    /\ selected_year # "All"
    /\ Len(filtered_data.rows) > 0
    /\ Len(filtered_data.rows) < Len(esg_data.rows)

\* C2: the options cascade: the years offered are the distinct Time values of
\* the rows of the selected country, and the trend indicators offered are the
\* distinct indicator names of the table narrowed by country and year.
C2_OptionsCascade ==
    /\ (pc \in PastSelection /\ HasYears(esg_data))
          => Range(all_years) \ {"All"}
               = Distinct(FilterCountryStep(esg_data, selected_country), "Time")
    /\ (pc = "done" /\ trend.branch \in {"chart", "no_data", "no_indicators"})
          => Range(trend.options) = Distinct(filtered_data, "Indicator Name")

\* The rows of a table without the named column.
Without(df, c) == Project(df, df.cols \ {c}).rows

KeyCount(right, key, v) == Cardinality({j \in DOMAIN right.rows : right.rows[j][key] = v})

\* What a left-outer join of left with right on key must give as result.
IsLeftOuter(left, right, key, name, result) ==
    /\ IsSubseq(Without(left, name), Project(result, left.cols \ {name}).rows)
    /\ (\A i \in DOMAIN left.rows : KeyCount(right, key, left.rows[i][key]) <= 1)
          => Len(result.rows) = Len(left.rows)
    /\ (\A i \in DOMAIN left.rows : KeyCount(right, key, left.rows[i][key]) = 2)
          => Len(result.rows) = 2 * Len(left.rows)

\* C3: each enrichment join is a left-outer join: every primary row is in the
\* result, in order, also without a match; a secondary with at most one row
\* per key gives n rows, one with exactly two rows for every primary key 2n.
C3_LeftOuterJoins ==
    [][/\ (/\ pc = "merge_country" /\ pc' = "merge_series"
           /\ "Country Code" \in esg_data.cols \cap esg_country.cols)
            => IsLeftOuter(esg_data, esg_country, "Country Code", "Country Name", esg_data')
       /\ (/\ pc = "merge_series" /\ pc' = "coerce_time"
           /\ "Series Code" \in esg_data.cols \cap esg_series.cols)
            => IsLeftOuter(esg_data, esg_series, "Series Code", "Indicator Name", esg_data')
      ]_vars

\* Two primary rows, two country rows for each of their keys (four rows after
\* the first join), and a series key without a match.
C3_Witness ==
    /\ pc = "coerce_time"
    /\ Len(loaded[DATA].df.rows) = 2
    /\ \A i \in DOMAIN loaded[DATA].df.rows :
          KeyCount(esg_country, "Country Code", loaded[DATA].df.rows[i]["Country Code"]) = 2
    /\ Len(esg_data.rows) = 4
    /\ \E i \in DOMAIN esg_data.rows : esg_data.rows[i]["Indicator Name"] = "Unknown Indicator"

Rates(m) == {m.accuracy, m.completeness, m.consistency}

\* C4: on a filtered table of zero rows the metrics are the zero sentinel; no
\* rate is ever a division by zero; the per-year mean of the trend chart is
\* only computed on a table with rows.
C4_EmptyTableGuarded ==
    /\ (pc \in PastQuality /\ Len(filtered_data.rows) = 0)
          => data_quality_metrics = ZeroMetrics
    /\ failure # "ZeroDivisionError"
    /\ \A r \in Rates(data_quality_metrics) : r.den # 0
    /\ IF trend.branch = "chart" THEN trend.rows > 0 ELSE trend.agg = <<>>

\* The metrics were computed on a table that the selections emptied.
C4_Witness ==
    /\ pc = "distribution"
    /\ Len(esg_data.rows) > 0
    /\ Len(filtered_data.rows) = 0
    /\ data_quality_metrics.computed

\* C5: a load of an absent source ends in a failure and never in a table.
C5_AbsentSourceFails ==
    \A p \in Paths : fs[p].kind = "absent" => loaded[p].kind # "frame"

Untouched ==
    /\ esg_data = EmptyFrame
    /\ filtered_data = EmptyFrame
    /\ all_countries = <<>> /\ all_years = <<>>
    /\ data_quality_metrics = NoMetrics
    /\ distribution = NoDistribution
    /\ trend = NoTrend

NoData(src) == src.kind \in {"absent", "blank"} \/ Len(src.rows) = 0

\* C6: when a core source is absent or holds no data rows, or a load returned
\* an empty table, the pass never gets past the guard: it ends stopped or
\* crashed and no step after the load stage has run.
C6_EmptyLoadHalts ==
    ((\E p \in Paths : NoData(fs[p]))
       \/ (\E p \in Paths : loaded[p].kind = "frame" /\ IsEmpty(loaded[p].df)))
    => /\ pc \in {"load_esg_data", "load_esg_country", "load_esg_series", "guard",
                  "stopped", "crashed"}
       /\ Untouched

\* The pass stopped on a series file that holds a header and no data rows.
C6_Witness ==
    /\ pc = "stopped"
    /\ fs[DATA] = Csv(StdPrimary)
    /\ fs[COUNTRY] = Csv(StdCountry)
    /\ fs[SERIES].kind = "csv" /\ Len(fs[SERIES].rows) = 0

LoadPc(p) ==
    IF p = DATA THEN "load_esg_data"
    ELSE IF p = COUNTRY THEN "load_esg_country" ELSE "load_esg_series"

\* C7: every load that returns gives the table of the source as it is now.
C7_LoadsAreFresh ==
    [][\A p \in Paths :
          (pc = LoadPc(p) /\ pc' # pc /\ pc' # "crashed")
             => loaded'[p] = ReadCsv(fs[p])]_vars

\* C8: the metric computation leaves the filtered table as it received it,
\* and the filter leaves the joined table as it was.
C8_NoStageMutatesInput ==
    [][/\ (pc = "quality") => filtered_data' = filtered_data
       /\ (pc \in {"filter_country", "filter_year"}) => esg_data' = esg_data]_vars

\* Lower-cased, underscores and hyphens to single spaces, trimmed.
Normalized(c) ==
    CASE c \in {"Series Code", "series code", "Series_Code", "SERIES-CODE"} -> "series code"
      [] c \in {"Country Code", "country code"} -> "country code"
      [] c = "Time" -> "time"
      [] c = "Value" -> "value"
      [] c = "Table Name" -> "table name"
      [] c = "Country Name" -> "country name"
      [] c = "Indicator Name" -> "indicator name"

\* C9: a primary table without the key K but with exactly one column of the
\* same normalized name has that column renamed to K and is joined on it.
C9_ReconciledJoin ==
    \A K \in {"Series Code", "Country Code"} :
       (/\ pc \in PastMerges
        /\ K \notin loaded[DATA].df.cols
        /\ Cardinality({c \in loaded[DATA].df.cols : Normalized(c) = Normalized(K)}) = 1)
       => /\ K \in esg_data.cols
          /\ <<"warning", K>> \notin messages

\* The pass is at or past the metrics, possibly ended by what they raised.
PastFilter ==
    \/ pc \in {"distribution", "trend", "done"}
    \/ pc = "crashed" /\ failure \in {"TypeError", "ZeroDivisionError"}

\* C10: when the selections leave zero rows nothing raises after the filter:
\* the metrics are the sentinel, the distribution section and the trend
\* section take their no-data branch with an empty indicator option list, and
\* nothing is counted or averaged.
C10_EmptySelectionDegrades ==
    (PastFilter /\ Len(filtered_data.rows) = 0)
    => /\ pc # "crashed"
       /\ data_quality_metrics = ZeroMetrics
       /\ pc \in {"trend", "done"} => distribution = [branch |-> "info", counts |-> {}]
       /\ pc = "done" => /\ trend.branch \in {"no_indicators", "no_columns"}
                         /\ trend.options = <<>>
                         /\ trend.agg = <<>>

\* A pass that ended on a country and a year, both offered, with no common row.
C10_Witness ==
    /\ pc = "done"
    /\ selected_country \in Range(all_countries) \ {"All"}
    /\ selected_year \in Range(all_years) \ {"All"}
    /\ Len(esg_data.rows) > 0
    /\ Len(filtered_data.rows) = 0
    /\ trend.branch = "no_indicators"

PastCoercion == {"select_country", "select_year"} \cup PastSelection

\* The cells astype(int) leaves in a column.
IntegerCells == {"2000", "2001", "5", "-5"}

TimesAreIntegers(df) ==
    "Time" \in df.cols => \A i \in DOMAIN df.rows : df.rows[i]["Time"] \in IntegerCells

\* C11: with a 'Time' column, the table after preprocessing holds exactly the
\* rows whose Time could be coerced to a number, in their order and otherwise
\* unchanged, each with the integer its Time was cut to; no row with a null
\* Time is kept, so every year offered and every row that reaches the filter
\* and the sections after it has a non-null integer Time.
C11_TimeCoerced ==
    [][/\ (pc = "coerce_time" /\ pc' = "select_country" /\ "Time" \in esg_data.cols)
            => LET Coerced(r) == IsNumeric(r["Time"])
                   kept == SelectSeq(esg_data.rows, Coerced)
               IN  /\ esg_data'.cols = esg_data.cols
                   /\ Len(esg_data'.rows) = Len(kept)
                   /\ \A i \in DOMAIN kept :
                        /\ \A x \in esg_data.cols \ {"Time"} :
                              esg_data'.rows[i][x] = kept[i][x]
                        /\ esg_data'.rows[i]["Time"] \in IntegerCells
                        /\ NumberOf(esg_data'.rows[i]["Time"]) = Truncated(kept[i]["Time"])
       /\ (pc' \in PastCoercion)
            => /\ TimesAreIntegers(esg_data')
               /\ TimesAreIntegers(filtered_data')
               /\ Range(all_years') \ {"All"} \subseteq IntegerCells
      ]_vars

\* Two loaded rows, one with a fractional Time and one whose Time is text or
\* missing: the first reaches the filter as year 2000, the second is gone.
C11_Witness ==
    /\ pc = "filter_country"
    /\ "Time" \in loaded[DATA].df.cols
    /\ Len(loaded[DATA].df.rows) = 2
    /\ \E i \in DOMAIN loaded[DATA].df.rows : loaded[DATA].df.rows[i]["Time"] = "2000.5"
    /\ \E i \in DOMAIN loaded[DATA].df.rows : ~IsNumeric(loaded[DATA].df.rows[i]["Time"])
    /\ Len(esg_data.rows) = 1
    /\ esg_data.rows[1]["Time"] = "2000"
    /\ all_years = <<"All", "2000">>

IntegerTimes(df) ==
    Cardinality({i \in DOMAIN df.rows :
                   IsNumeric(df.rows[i]["Time"]) /\ IsIntegral(df.rows[i]["Time"])})

NumericValues(df) == Cardinality({i \in DOMAIN df.rows : IsNumeric(df.rows[i]["Value"])})

=============================================================================
